---- MODULE Spec2Model ----
(***************************************************************************)
(* A model of danger-plugin-coverage (src/src/plugin.js): the coverage()   *)
(* plugin entry point, which reads a clover report, keeps the files of the *)
(* change set, and posts a Markdown table and summary, and the pure        *)
(* helpers it is made of.                                                  *)
(*                                                                         *)
(* Text is held as TLA+ strings.  A path that the code splits is held as a *)
(* sequence of tokens, each token either the separator "/" or a run of     *)
(* characters that holds no separator; Text(tokens) is the string.         *)
(* A JavaScript value is a record tagged by "kind": a number               *)
(* [kind |-> "num", val |-> n], NaN, undefined or a string.                *)
(* A percentage with two decimals is held in hundredths (95.24 is 9524).   *)
(***************************************************************************)
EXTENDS Integers, Sequences, FiniteSets, TLC

(***************************************************************************)
(* Bounds of the model.                                                    *)
(***************************************************************************)
\* the longest list of <file> elements in a report
MaxFiles == 2
\* the largest counter value of a <metrics> element
MaxCount == 21
\* the largest number of segments of a path given to getShortPath
\* the most files in a report tree, and the most levels of groups above them
MaxTreeFiles == 3
MaxDepth == 2
\* the most files in a report that fills a table
MaxTableFiles == 7
MaxSegments == 4

(***************************************************************************)
(* JavaScript values.                                                      *)
(***************************************************************************)
Num(n) == [kind |-> "num", val |-> n]
NaN == [kind |-> "nan"]
Undefined == [kind |-> "undefined"]
JsString(s) == [kind |-> "string", str |-> s]

IsNum(v) == v.kind = "num"

\* Number(v): a number is itself, undefined is NaN, the empty string is 0, a
\* string of decimal digits is its value and any other string is NaN.
Number(v) ==
  CASE v.kind = "num" -> v
    [] v.kind = "nan" -> NaN
    [] v.kind = "undefined" -> NaN
    [] v.kind = "string" ->
         IF v.str = "" THEN Num(0)
         ELSE IF \E n \in 0..MaxCount : ToString(n) = v.str
              THEN Num(CHOOSE n \in 0..MaxCount : ToString(n) = v.str)
              ELSE NaN

\* the truthiness of a value, as || and ! test it
Truthy(v) ==
  CASE v.kind = "num" -> v.val # 0
    [] v.kind = "nan" -> FALSE
    [] v.kind = "undefined" -> FALSE
    [] v.kind = "string" -> v.str # ""

\* a + b on numbers: NaN if either is NaN
JsAdd(a, b) == IF IsNum(a) /\ IsNum(b) THEN Num(a.val + b.val) ELSE NaN

\* obj[key]: the property, or undefined when the object has no such key
Get(obj, key) == IF key \in DOMAIN obj THEN obj[key] ELSE Undefined

\* the object with no keys
EmptyObject == [k \in {} |-> Undefined]

(***************************************************************************)
(* Metric Calculator.                                                      *)
(***************************************************************************)
\* the string '-' that stands for a percentage that is not a number
Dash == JsString("-")

\* Number(x.toFixed(2)) of x = covered / total * 100, in hundredths: the
\* nearest hundredth, a tie going up
\* the hundredths cut off instead of rounded
Round2_truncates(covered, total) == (10000 * covered) \div total

Round2(covered, total) == (2 * 10000 * covered + total) \div (2 * total)

\* getCoveredPercentage with the test for NaN ahead of the test of the total
getCoveredPercentage_nanFirst(covered, total) ==
  LET c == Number(covered)
      t == Number(total)
  IN  IF ~IsNum(c) \/ ~IsNum(t) \/ (c.val = 0 /\ t.val = 0) THEN Dash
      ELSE IF ~Truthy(t) THEN Num(100 * 100)
      ELSE Num(Round2(c.val, t.val))

getCoveredPercentage(covered, total) ==
  LET c == Number(covered)
      t == Number(total)
  IN  IF ~Truthy(t) THEN Num(100 * 100)
      ELSE IF ~IsNum(c) THEN Dash
      ELSE Num(Round2(c.val, t.val))

getMetricPercentages(metrics) ==
  [statements |-> getCoveredPercentage(Get(metrics, "coveredstatements"),
                                       Get(metrics, "statements")),
   branches   |-> getCoveredPercentage(Get(metrics, "coveredconditionals"),
                                       Get(metrics, "conditionals")),
   functions  |-> getCoveredPercentage(Get(metrics, "coveredmethods"),
                                       Get(metrics, "methods"))]

(***************************************************************************)
(* Text and paths.                                                         *)
(***************************************************************************)
RECURSIVE Text(_)
\* the string a sequence of tokens spells
Text(tokens) == IF tokens = <<>> THEN "" ELSE Head(tokens) \o Text(Tail(tokens))

Reverse(s) == [i \in 1..Len(s) |-> s[Len(s) + 1 - i]]

RECURSIVE Split(_)
\* filePath.split('/'): the runs of characters between separators, an empty
\* run included (before a leading separator, between two, after a trailing one)
Split(tokens) ==
  IF tokens = <<>> THEN <<"">>
  ELSE LET rest == Split(Tail(tokens))
       IN  IF Head(tokens) = "/" THEN <<"">> \o rest
           ELSE <<Head(tokens) \o Head(rest)>> \o Tail(rest)

RECURSIVE Join(_)
\* parts.join('/'), as tokens
Join(parts) ==
  IF parts = <<>> THEN <<>>
  ELSE IF Len(parts) = 1 THEN <<parts[1]>>
  ELSE <<parts[1], "/">> \o Join(Tail(parts))

(***************************************************************************)
(* Path Shortener.                                                         *)
(***************************************************************************)
maxChars == 50

RECURSIVE TakeParts_inclusive(_, _, _)
\* TakeParts with the budget test written <= instead of <
TakeParts_inclusive(parts, shortParts, currentChars) ==
  IF parts = <<>> THEN shortParts
  ELSE IF currentChars <= maxChars
       THEN TakeParts_inclusive(Tail(parts), Append(shortParts, Head(parts)),
                                currentChars + Len(Head(parts)) + 1)
       ELSE TakeParts_inclusive(Tail(parts), shortParts, currentChars)

RECURSIVE TakeParts(_, _, _)
\* the forEach of getShortPath: a part is pushed while the characters
\* counted so far are fewer than maxChars, and then counted with a separator
TakeParts(parts, shortParts, currentChars) ==
  IF parts = <<>> THEN shortParts
  ELSE IF currentChars < maxChars
       THEN TakeParts(Tail(parts), Append(shortParts, Head(parts)),
                      currentChars + Len(Head(parts)) + 1)
       ELSE TakeParts(Tail(parts), shortParts, currentChars)

\* the parts of a path, deepest first, the empty ones removed
PathParts(filePath) == SelectSeq(Reverse(Split(filePath)), LAMBDA x : x # "")

\* the parts getShortPath keeps, deepest first
KeptParts(filePath) == TakeParts(PathParts(filePath), <<>>, 0)

\* getShortPath without the reverse() before the join: deepest segment first
getShortPath_noReverse(filePath) ==
  LET parts == PathParts(filePath)
      shortParts == KeptParts(filePath)
      marked == IF Len(shortParts) < Len(parts) - 1
                THEN <<"..">> \o shortParts
                ELSE shortParts
  IN  IF Len(parts) = 1 THEN filePath
      ELSE Join(marked)

getShortPath(filePath) ==
  LET parts == PathParts(filePath)
      shortParts == KeptParts(filePath)
      marked == IF Len(shortParts) < Len(parts) - 1
                THEN Append(shortParts, "..")
                ELSE shortParts
  IN  IF Len(parts) = 1 THEN filePath
      ELSE Join(Reverse(marked))


(***************************************************************************)
(* The state: the plugin's surroundings and what one run of coverage()     *)
(* leaves behind.                                                          *)
(***************************************************************************)
VARIABLES
  fs,               \* the report file: absent, or what the XML parser makes of it
  git,              \* danger.git: created_files, modified_files and, optionally, commits
  options,          \* the settings object handed to coverage()
  pc,               \* "start", then "returned" or "threw"
  markdownCalls,    \* the arguments of the calls of markdown(), each a list of lines
  warnCalls,        \* the arguments of the calls of warn()
  relevantFiles,    \* coverage()'s relevantFiles
  combinedMetrics,  \* coverage()'s combinedMetrics
  tableLines,       \* coverage()'s table, as its lines
  summaryLines,     \* coverage()'s summary, as its lines
  filePath,         \* the argument of a call of getShortPath
  shortPath         \* its result

vars == <<fs, git, options, pc, markdownCalls, warnCalls, relevantFiles,
          combinedMetrics, tableLines, summaryLines, filePath, shortPath>>

(***************************************************************************)
(* File Flattener.                                                         *)
(***************************************************************************)
RECURSIVE getFlatFiles(_), FlatMap(_)
\* the concatenation taken from the last item to the first
FlatMap_reversed(items) ==
  IF items = <<>> THEN <<>>
  ELSE FlatMap(Tail(items)) \o getFlatFiles(Head(items))

\* [].concat(...items.map((item) => getFlatFiles(item)))
FlatMap(items) ==
  IF items = <<>> THEN <<>>
  ELSE getFlatFiles(Head(items)) \o FlatMap(Tail(items))

\* getFlatFiles looking for the key package before the key project
getFlatFiles_packageFirst(coverage) ==
  IF "package" \in DOMAIN coverage THEN FlatMap(coverage.package)
  ELSE IF "project" \in DOMAIN coverage THEN FlatMap(coverage.project)
  ELSE IF "file" \in DOMAIN coverage THEN coverage.file
  ELSE <<>>

getFlatFiles(coverage) ==
  IF "project" \in DOMAIN coverage THEN FlatMap(coverage.project)
  ELSE IF "package" \in DOMAIN coverage THEN FlatMap(coverage.package)
  ELSE IF "file" \in DOMAIN coverage THEN coverage.file
  ELSE <<>>

\* file.metrics?.[0].$ || {}
FileMetrics(file) ==
  IF "metrics" \in DOMAIN file THEN file.metrics[1] ELSE EmptyObject

\* const { line = [] } = file
FileLines(file) == IF "line" \in DOMAIN file THEN file.line ELSE <<>>

(***************************************************************************)
(* Threshold Evaluator.  A percentage is held in hundredths and a          *)
(* threshold in whole percents.                                            *)
(***************************************************************************)
\* the comparison turned round: Number(percentage) <= limit
AtLeast_atMost(percentage, limit) ==
  /\ IsNum(Number(percentage))
  /\ IsNum(limit)
  /\ Number(percentage).val <= 100 * limit.val

\* Number(percentage) >= limit
AtLeast(percentage, limit) ==
  /\ IsNum(Number(percentage))
  /\ IsNum(limit)
  /\ Number(percentage).val >= 100 * limit.val

\* hasPassed without the exemption of '-'
hasPassed_noSentinel(threshold, percentages) ==
  /\ AtLeast(percentages.statements, Get(threshold, "statements"))
  /\ AtLeast(percentages.branches, Get(threshold, "branches"))
  /\ AtLeast(percentages.functions, Get(threshold, "functions"))

hasPassed(threshold, percentages) ==
  /\ AtLeast(percentages.statements, Get(threshold, "statements"))
       \/ percentages.statements = Dash
  /\ AtLeast(percentages.branches, Get(threshold, "branches"))
       \/ percentages.branches = Dash
  /\ AtLeast(percentages.functions, Get(threshold, "functions"))
       \/ percentages.functions = Dash

(***************************************************************************)
(* Values as text, the way a template literal or join() writes them.       *)
(***************************************************************************)
\* a number held in hundredths, without trailing zeros
HundredthsText(h) ==
  LET whole == h \div 100
      frac == h % 100
  IN  IF frac = 0 THEN ToString(whole)
      ELSE IF frac % 10 = 0 THEN ToString(whole) \o "." \o ToString(frac \div 10)
      ELSE IF frac < 10 THEN ToString(whole) \o ".0" \o ToString(frac)
      ELSE ToString(whole) \o "." \o ToString(frac)

PercentageText(v) ==
  CASE v.kind = "num" -> HundredthsText(v.val)
    [] v.kind = "string" -> v.str
    [] v.kind = "nan" -> "NaN"
    [] v.kind = "undefined" -> "undefined"

ValueText(v) ==
  CASE v.kind = "num" -> ToString(v.val)
    [] v.kind = "string" -> v.str
    [] v.kind = "nan" -> "NaN"
    [] v.kind = "undefined" -> "undefined"

RECURSIVE JoinText(_, _)
\* items.join(sep), as a string
JoinText(items, sep) ==
  IF items = <<>> THEN ""
  ELSE IF Len(items) = 1 THEN items[1]
  ELSE items[1] \o sep \o JoinText(Tail(items), sep)


(***************************************************************************)
(* path.relative(process.cwd(), to), for paths that hold no "." and no     *)
(* ".." segment.                                                           *)
(***************************************************************************)
\* process.cwd()
cwd == <<"/", "repo">>

Segments(tokens) == SelectSeq(Split(tokens), LAMBDA x : x # "")

IsAbsolute(tokens) == tokens # <<>> /\ Head(tokens) = "/"

\* path.resolve(tokens), as segments below the root
Resolve(tokens) ==
  IF IsAbsolute(tokens) THEN Segments(tokens)
  ELSE Segments(cwd) \o Segments(tokens)

RECURSIVE CommonPrefixLen(_, _)
CommonPrefixLen(a, b) ==
  IF a = <<>> \/ b = <<>> \/ Head(a) # Head(b) THEN 0
  ELSE 1 + CommonPrefixLen(Tail(a), Tail(b))

PathRelative(from, to) ==
  LET f == Resolve(from)
      t == Resolve(to)
      k == CommonPrefixLen(f, t)
  IN  Join([i \in 1..(Len(f) - k) |-> ".."] \o SubSeq(t, k + 1, Len(t)))

\* path.join(process.cwd(), cloverPath), as a string
AbsolutePath(cloverPath) ==
  Text(<<"/">> \o Join(Segments(cwd) \o Segments(cloverPath)))

(***************************************************************************)
(* Table Renderer.                                                         *)
(***************************************************************************)
\* danger.git?.[key] || []
GitList(key) == IF key \in DOMAIN git THEN git[key] ELSE <<>>

\* const { sha } = danger.git?.commits?.[danger.git.commits.length - 1] || {}
LastSha ==
  LET commits == GitList("commits")
  IN  IF commits = <<>> THEN Undefined ELSE Get(commits[Len(commits)], "sha")

\* the array of a buildRow that shows '-' in the percentage cells of a file
\* without lines but still judges its metrics
RowCells_judgesNoLines(file, threshold) ==
  LET noLines == Len(FileLines(file)) = 0
      sha == LastSha
      relPath == PathRelative(cwd, file.path)
      short == Text(getShortPath(relPath))
      fileLink == "../blob/" \o ValueText(sha) \o "/" \o Text(relPath)
      fileCell == IF Truthy(sha) THEN "[" \o short \o "](" \o fileLink \o ")"
                  ELSE short
      percentages == getMetricPercentages(FileMetrics(file))
      emoji == IF hasPassed(threshold, percentages) THEN ":white_check_mark:"
               ELSE ":x:"
  IN  << "",
         fileCell,
         IF noLines THEN "-" ELSE PercentageText(percentages.statements),
         IF noLines THEN "-" ELSE PercentageText(percentages.branches),
         IF noLines THEN "-" ELSE PercentageText(percentages.functions),
         emoji,
         "" >>

\* the array buildRow joins
RowCells(file, threshold) ==
  LET noLines == Len(FileLines(file)) = 0
      sha == LastSha
      relPath == PathRelative(cwd, file.path)
      short == Text(getShortPath(relPath))
      fileLink == "../blob/" \o ValueText(sha) \o "/" \o Text(relPath)
      fileCell == IF Truthy(sha) THEN "[" \o short \o "](" \o fileLink \o ")"
                  ELSE short
      percentages == getMetricPercentages(FileMetrics(file))
      emoji == IF noLines THEN "-"
               ELSE IF hasPassed(threshold, percentages) THEN ":white_check_mark:"
               ELSE ":x:"
  IN  << "",
         fileCell,
         IF noLines THEN "-" ELSE PercentageText(percentages.statements),
         IF noLines THEN "-" ELSE PercentageText(percentages.branches),
         IF noLines THEN "-" ELSE PercentageText(percentages.functions),
         emoji,
         "" >>

buildRow(file, threshold) == JoinText(RowCells(file, threshold), "|")

joinRow(items) == "|" \o JoinText(items, "|") \o "|"

\* the headings with a column for lines added
headings_withLines ==
  <<"Impacted Files", "% Stmts", "% Branch", "% Funcs", "% Lines", "">>

headings == <<"Impacted Files", "% Stmts", "% Branch", "% Funcs", "">>

headingRow == joinRow(headings)

emptyHeadingRow == joinRow([i \in 1..Len(headings) |-> " "])

seperator == joinRow([i \in 1..Len(headings) |-> IF i = 1 THEN "---" ELSE ":-:"])

\* allFileRows.slice(0, maxRows) and allFileRows.slice(maxRows), maxRows >= 0
SliceTo(rows, maxRows) ==
  SubSeq(rows, 1, IF maxRows < Len(rows) THEN maxRows ELSE Len(rows))

\* slice(maxRows + 1): the first of the remaining rows is lost
SliceFrom_skipsOne(rows, maxRows) == SubSeq(rows, maxRows + 2, Len(rows))

SliceFrom(rows, maxRows) == SubSeq(rows, maxRows + 1, Len(rows))

\* the table, as its lines
buildTable(files, maxRows, threshold) ==
  LET allFileRows == [i \in 1..Len(files) |-> buildRow(files[i], threshold)]
      mainFileRows == SliceTo(allFileRows, maxRows)
      extraFileRows == SliceFrom(allFileRows, maxRows)
      table == <<headingRow, seperator>> \o mainFileRows
  IN  IF Len(extraFileRows) > 0
      THEN table
           \o << "",
                 "<details>",
                 "<summary>",
                 "and " \o ToString(Len(extraFileRows)) \o " more...",
                 "</summary>",
                 "",
                 emptyHeadingRow,
                 seperator >>
           \o extraFileRows
           \o <<"</details>">>
      ELSE table

(***************************************************************************)
(* Summary Renderer.                                                       *)
(***************************************************************************)
getThresholdSummaryLine(percentages, key, threshold) ==
  IF AtLeast(percentages[key], Get(threshold, key)) THEN ""
  ELSE "Coverage threshold for " \o key \o " (" \o ValueText(Get(threshold, key))
       \o "%) not met: " \o PercentageText(percentages[key]) \o "%"

\* the line of three backquotes that opens and closes the block of misses; a
\* TLA+ string cannot hold a backquote, so each is written as an apostrophe
codeFence == "'''"

\* buildSummary without the filter that removes the empty strings
buildSummary_noFilter(metrics, successMessage, failureMessage, threshold) ==
  LET percentages == getMetricPercentages(metrics)
      passed == hasPassed(threshold, percentages)
      thresholdSummary ==
        << getThresholdSummaryLine(percentages, "statements", threshold),
           getThresholdSummaryLine(percentages, "branches", threshold),
           getThresholdSummaryLine(percentages, "functions", threshold) >>
  IN  IF passed THEN <<"> " \o successMessage>>
      ELSE <<"> " \o failureMessage, "", codeFence>> \o thresholdSummary
           \o <<codeFence>>

\* the summary, as its lines
buildSummary(metrics, successMessage, failureMessage, threshold) ==
  LET percentages == getMetricPercentages(metrics)
      passed == hasPassed(threshold, percentages)
      thresholdSummary ==
        SelectSeq(<< getThresholdSummaryLine(percentages, "statements", threshold),
                     getThresholdSummaryLine(percentages, "branches", threshold),
                     getThresholdSummaryLine(percentages, "functions", threshold) >>,
                  LAMBDA x : x # "")
  IN  IF passed THEN <<"> " \o successMessage>>
      ELSE <<"> " \o failureMessage>>
           \o (IF Len(thresholdSummary) > 0
               THEN <<"", codeFence>> \o thresholdSummary \o <<codeFence>>
               ELSE <<>>)

(***************************************************************************)
(* Aggregate metrics.                                                      *)
(***************************************************************************)
\* one turn of the reduce: for every key of the file's metrics,
\*   acc[key] = acc[key] || 0 + Number(fileMetrics[key])
\* where + binds tighter than ||
\* a reduce in which the covered counts of a later file replace the earlier
CombineFile_coveredFromLast(acc, file) ==
  LET fileMetrics == FileMetrics(file)
      covered == {"coveredstatements", "coveredconditionals", "coveredmethods"}
  IN  [key \in DOMAIN acc \cup DOMAIN fileMetrics |->
         IF key \notin DOMAIN fileMetrics THEN acc[key]
         ELSE IF key \notin covered /\ Truthy(Get(acc, key)) THEN acc[key]
         ELSE JsAdd(Num(0), Number(fileMetrics[key]))]

CombineFile(acc, file) ==
  LET fileMetrics == FileMetrics(file)
  IN  [key \in DOMAIN acc \cup DOMAIN fileMetrics |->
         IF key \notin DOMAIN fileMetrics THEN acc[key]
         ELSE IF Truthy(Get(acc, key)) THEN acc[key]
         ELSE JsAdd(Num(0), Number(fileMetrics[key]))]

RECURSIVE Reduce(_, _)
Reduce(acc, files) ==
  IF files = <<>> THEN acc ELSE Reduce(CombineFile(acc, Head(files)), Tail(files))

getCombinedMetrics(files) == Reduce(EmptyObject, files)


(***************************************************************************)
(* Report Loader.  fs maps the absolute path of a file that exists to what *)
(* the XML parser makes of it: [wellFormed |-> FALSE] when parsing fails,  *)
(* else [wellFormed |-> TRUE, doc |-> the parsed document].                *)
(***************************************************************************)
\* getCoverageXml without its existsSync test: reading a file that does not
\* exist throws
getCoverageXml_noExistsCheck(cloverPath) ==
  LET absolutePath == AbsolutePath(cloverPath)
  IN  IF absolutePath \notin DOMAIN fs THEN [status |-> "threw"]
      ELSE IF ~fs[absolutePath].wellFormed THEN [status |-> "threw"]
      ELSE IF "coverage" \notin DOMAIN fs[absolutePath].doc
           THEN [status |-> "undefined"]
      ELSE [status |-> "value", coverageXml |-> fs[absolutePath].doc.coverage]

\* the outcome of getCoverageXml: null, a rejected promise, or the value of
\* the document's coverage key (undefined when it has none)
getCoverageXml(cloverPath) ==
  LET absolutePath == AbsolutePath(cloverPath)
  IN  IF absolutePath \notin DOMAIN fs THEN [status |-> "null"]
      ELSE IF ~fs[absolutePath].wellFormed THEN [status |-> "threw"]
      ELSE IF "coverage" \notin DOMAIN fs[absolutePath].doc
           THEN [status |-> "undefined"]
      ELSE [status |-> "value", coverageXml |-> fs[absolutePath].doc.coverage]

(***************************************************************************)
(* Relevance Filter.                                                       *)
(***************************************************************************)
\* allFiles.includes(path)
Includes(allFiles, path) ==
  \E i \in 1..Len(allFiles) : Text(allFiles[i]) = Text(path)

\* getRelevantFiles that filters by the change set whatever showAllFiles is
getRelevantFiles_alwaysFilters(coverageXml, showAllFiles) ==
  LET files == getFlatFiles(coverageXml)
      allFiles == GitList("created_files") \o GitList("modified_files")
  IN  SelectSeq(files, LAMBDA file : Includes(allFiles, file.path))

\* getRelevantFiles with modified_files left out of allFiles
getRelevantFiles_createdOnly(coverageXml, showAllFiles) ==
  LET files == getFlatFiles(coverageXml)
      allFiles == GitList("created_files")
  IN  IF showAllFiles THEN files
      ELSE SelectSeq(files, LAMBDA file : Includes(allFiles, file.path))

getRelevantFiles(coverageXml, showAllFiles) ==
  LET files == getFlatFiles(coverageXml)
      allFiles == GitList("created_files") \o GitList("modified_files")
  IN  IF showAllFiles THEN files
      ELSE SelectSeq(files, LAMBDA file : Includes(allFiles, file.path))

(***************************************************************************)
(* Orchestrator: coverage(options).                                        *)
(***************************************************************************)
\* a setting, or its default when the caller leaves it out
Option(key, default) == IF key \in DOMAIN options THEN options[key] ELSE default

defaultSuccessMessage == ":+1: Test coverage is looking good."

defaultFailureMessage ==
  "Test coverage is looking a little low for the files created "
  \o "or modified in this PR, perhaps we need to improve this."

defaultCloverReportPath == <<"coverage", "/", "clover.xml">>

defaultMaxRows == 5

defaultThreshold ==
  [statements |-> Num(80), branches |-> Num(80), functions |-> Num(80)]

successMessage == Option("successMessage", defaultSuccessMessage)
failureMessage == Option("failureMessage", defaultFailureMessage)
cloverReportPath == Option("cloverReportPath", defaultCloverReportPath)
maxRows == Option("maxRows", defaultMaxRows)
showAllFiles == Option("showAllFiles", FALSE)
threshold == Option("threshold", defaultThreshold)

\* the report with the table ahead of the summary
Report_tableFirst(coverageXml) ==
  LET relevant == getRelevantFiles(coverageXml, showAllFiles)
      combined == getCombinedMetrics(relevant)
  IN  <<"## Coverage Report", "">>
      \o buildTable(relevant, maxRows, threshold) \o <<"">>
      \o buildSummary(combined, successMessage, failureMessage, threshold)

\* the report coverage() posts for a parsed report, as its lines
Report(coverageXml) ==
  LET relevant == getRelevantFiles(coverageXml, showAllFiles)
      combined == getCombinedMetrics(relevant)
      table == buildTable(relevant, maxRows, threshold)
      summary == buildSummary(combined, successMessage, failureMessage, threshold)
  IN  <<"## Coverage Report", "">> \o summary \o <<"">> \o table

\* the report file does not exist, or holds no coverage element: return
CoverageNoReport ==
  /\ pc = "start"
  /\ getCoverageXml(cloverReportPath).status \in {"null", "undefined"}
  /\ pc' = "returned"
  /\ UNCHANGED <<fs, git, options, markdownCalls, warnCalls, relevantFiles,
                 combinedMetrics, tableLines, summaryLines, filePath, shortPath>>

\* the XML parser rejects the file: the promise coverage() returns rejects
CoverageParseFails ==
  /\ pc = "start"
  /\ getCoverageXml(cloverReportPath).status = "threw"
  /\ pc' = "threw"
  /\ UNCHANGED <<fs, git, options, markdownCalls, warnCalls, relevantFiles,
                 combinedMetrics, tableLines, summaryLines, filePath, shortPath>>

\* the report is read: filter, combine, render and post
CoverageReports ==
  /\ pc = "start"
  /\ getCoverageXml(cloverReportPath).status = "value"
  /\ LET coverageXml == getCoverageXml(cloverReportPath).coverageXml
     IN  /\ relevantFiles' = getRelevantFiles(coverageXml, showAllFiles)
         /\ combinedMetrics' =
              getCombinedMetrics(getRelevantFiles(coverageXml, showAllFiles))
         /\ tableLines' =
              buildTable(getRelevantFiles(coverageXml, showAllFiles), maxRows,
                         threshold)
         /\ summaryLines' =
              buildSummary(getCombinedMetrics(
                             getRelevantFiles(coverageXml, showAllFiles)),
                           successMessage, failureMessage, threshold)
         /\ markdownCalls' = Append(markdownCalls, Report(coverageXml))
  /\ pc' = "returned"
  /\ UNCHANGED <<fs, git, options, warnCalls, filePath, shortPath>>


(***************************************************************************)
(* The surroundings a run starts from: reports, change sets and settings.  *)
(***************************************************************************)
\* the attributes of a <metrics> element: totals and covered counts
Attrs(s, cs, c, cc, m, cm) ==
  [statements |-> JsString(s),
   coveredstatements |-> JsString(cs),
   conditionals |-> JsString(c),
   coveredconditionals |-> JsString(cc),
   methods |-> JsString(m),
   coveredmethods |-> JsString(cm)]

\* a <line> element
Line(count) == [num |-> JsString("1"), count |-> JsString(count), type |-> "stmt"]

\* a <file> element with a <metrics> element and its <line> elements
File(path, attrs, lines) ==
  IF lines = <<>> THEN [path |-> path, metrics |-> <<attrs>>]
  ELSE [path |-> path, metrics |-> <<attrs>>, line |-> lines]

pathOne == <<"src", "/", "one.js">>
pathTwo == <<"src", "/", "two.js">>
pathIndex == <<"src", "/", "index.js">>
pathThree == <<"src", "/", "three.js">>
pathFour == <<"src", "/", "four.js">>
pathMissing == <<"src", "/", "missing.js">>
pathPackage == <<"package.json">>

\* the <file> elements reports are made of: fully covered, partly covered,
\* named by an absolute path, without lines, and not covered at all
ReportFiles ==
  { File(pathOne, Attrs("10", "10", "10", "10", "10", "10"), <<Line("1")>>),
    File(pathTwo, Attrs("10", "5", "10", "0", "4", "3"), <<Line("1"), Line("0")>>),
    File(cwd \o <<"/">> \o pathIndex,
         Attrs("10", "10", "10", "10", "10", "10"), <<Line("1")>>),
    File(pathThree, Attrs("0", "0", "0", "0", "0", "0"), <<>>),
    File(pathFour, Attrs("4", "0", "4", "0", "4", "0"), <<Line("0")>>) }

SeqsUpTo(S, n) == UNION {[1..k -> S] : k \in 0..n}

\* the lists of up to n different members of S
DistinctSeqsUpTo(S, n) ==
  {q \in SeqsUpTo(S, n) : \A i, j \in 1..Len(q) : q[i] = q[j] => i = j}

\* a <project> or <coverage> element holding the given <file> elements
Element(files) ==
  IF files = <<>> THEN [name |-> "All files"]
  ELSE [name |-> "All files", file |-> files]

\* the values of a parsed document's coverage key
CoverageTrees ==
  UNION { { Element(files), [project |-> <<Element(files)>>] } :
          files \in DistinctSeqsUpTo(ReportFiles, MaxFiles) }

DefaultReport == AbsolutePath(defaultCloverReportPath)

customCloverReportPath == <<"custom", "/", "clover.xml">>

FileSystems ==
  { EmptyObject,
    [p \in {DefaultReport} |-> [wellFormed |-> FALSE]],
    [p \in {DefaultReport} |-> [wellFormed |-> TRUE, doc |-> [html |-> <<>>]]],
    [p \in {AbsolutePath(customCloverReportPath)} |->
       [wellFormed |-> TRUE,
        doc |-> [coverage |->
                   [project |-> <<Element(<<CHOOSE f \in ReportFiles :
                                               f.path = pathOne>>)>>]]]] }
  \cup { [p \in {DefaultReport} |->
            [wellFormed |-> TRUE, doc |-> [coverage |-> tree]]] :
         tree \in CoverageTrees }

GitStates ==
  { [created_files |-> <<>>, modified_files |-> <<>>],
    [created_files |-> <<pathOne>>, modified_files |-> <<pathTwo>>],
    [created_files |-> <<pathOne>>, modified_files |-> <<pathTwo>>,
     commits |-> <<[sha |-> JsString("abc123")]>>],
    [created_files |-> <<pathOne, pathMissing>>, modified_files |-> <<pathPackage>>],
    [created_files |-> <<pathOne>>, modified_files |-> <<pathOne>>],
    [created_files |-> <<pathIndex>>, modified_files |-> <<>>],
    [created_files |-> <<pathPackage>>,
     modified_files |-> <<pathPackage, <<"yarn.lock">>>>] }

Merge(a, b) ==
  [k \in DOMAIN a \cup DOMAIN b |-> IF k \in DOMAIN b THEN b[k] ELSE a[k]]

OptionSets ==
  { Merge(Merge(a, b), c) :
      a \in { EmptyObject, [showAllFiles |-> TRUE] },
      b \in { EmptyObject, [maxRows |-> 1] },
      c \in { EmptyObject,
              [successMessage |-> "Custom success message",
               failureMessage |-> "Custom failure message"],
              [warnOnNoReport |-> FALSE, warnOnMissingFiles |-> FALSE],
              [cloverReportPath |-> customCloverReportPath],
              [threshold |-> [statements |-> Num(50), branches |-> Num(0),
                              functions |-> Num(75)]] } }

Init ==
  /\ fs \in FileSystems
  /\ git \in GitStates
  /\ options \in OptionSets
  /\ pc = "start"
  /\ markdownCalls = <<>>
  /\ warnCalls = <<>>
  /\ relevantFiles = <<>>
  /\ combinedMetrics = EmptyObject
  /\ tableLines = <<>>
  /\ summaryLines = <<>>
  /\ filePath = <<>>
  /\ shortPath = <<>>

Next == CoverageNoReport \/ CoverageParseFails \/ CoverageReports

Spec == Init /\ [][Next]_vars


(***************************************************************************)
(* getShortPath on its own: a run starts with a path and shortens it.      *)
(***************************************************************************)
\* segment names of 1, 10, 49 and 60 characters
SegmentNames ==
  { "a",
    "xxxxxxxxxx",
    "yyyyyyyyyyyyyyyyyyyyyyyyyyyyyyyyyyyyyyyyyyyyyyyyy",
    "zzzzzzzzzzzzzzzzzzzzzzzzzzzzzzzzzzzzzzzzzzzzzzzzzzzzzzzzzzzz" }

\* a path of up to MaxSegments segments: relative, rooted, or ending in a
\* separator
PathInputs ==
  UNION { { Join(segs), <<"/">> \o Join(segs), Join(segs) \o <<"/">> } :
          segs \in SeqsUpTo(SegmentNames, MaxSegments) \ {<<>>} }

InitPath ==
  /\ fs = EmptyObject
  /\ git = [created_files |-> <<>>, modified_files |-> <<>>]
  /\ options = EmptyObject
  /\ pc = "start"
  /\ markdownCalls = <<>>
  /\ warnCalls = <<>>
  /\ relevantFiles = <<>>
  /\ combinedMetrics = EmptyObject
  /\ tableLines = <<>>
  /\ summaryLines = <<>>
  /\ filePath \in PathInputs
  /\ shortPath = <<>>

ShortenPath ==
  /\ pc = "start"
  /\ shortPath' = getShortPath(filePath)
  /\ pc' = "returned"
  /\ UNCHANGED <<fs, git, options, markdownCalls, warnCalls, relevantFiles,
                 combinedMetrics, tableLines, summaryLines, filePath>>

NextPath == ShortenPath

SpecPath == InitPath /\ [][NextPath]_vars


(***************************************************************************)
(* One changed file under every kind of counters, lines and thresholds.    *)
(***************************************************************************)
\* a metric's two attributes, either of which a <metrics> element may lack:
\* full, at the default threshold, half, zero totals, and attributes missing
RowCounts ==
  { [total |-> JsString("10"), covered |-> JsString("10")],
    [total |-> JsString("10"), covered |-> JsString("8")],
    [total |-> JsString("10"), covered |-> JsString("5")],
    [total |-> JsString("0"), covered |-> JsString("0")],
    [total |-> JsString("0"), covered |-> JsString("5")],
    [total |-> JsString("0")],
    [total |-> JsString("10")],
    [covered |-> JsString("5")],
    EmptyObject }

\* the counts of one metric under its two attribute names
Counters(counts, totalKey, coveredKey) ==
  [k \in (IF "total" \in DOMAIN counts THEN {totalKey} ELSE {})
         \cup (IF "covered" \in DOMAIN counts THEN {coveredKey} ELSE {}) |->
     IF k = totalKey THEN counts.total ELSE counts.covered]

RowAttrs(s, c, m) ==
  Merge(Merge(Counters(s, "statements", "coveredstatements"),
              Counters(c, "conditionals", "coveredconditionals")),
        Counters(m, "methods", "coveredmethods"))

RowLineLists == { <<>>, <<Line("1")>>, <<Line("0")>>, <<Line("1"), Line("0")>> }

RowFiles ==
  { File(pathOne, RowAttrs(s, c, m), lines) :
      s \in RowCounts, c \in RowCounts, m \in RowCounts, lines \in RowLineLists }

\* the settings: none, custom messages, and thresholds that are complete,
\* partial, empty, or carry a limit for lines
RowOptionSets ==
  { EmptyObject,
    [successMessage |-> "Custom success message",
     failureMessage |-> "Custom failure message"],
    [threshold |-> [statements |-> Num(50), branches |-> Num(50),
                    functions |-> Num(50)]],
    [threshold |-> [statements |-> Num(100), branches |-> Num(100),
                    functions |-> Num(100)]],
    [threshold |-> [statements |-> Num(50)]],
    [threshold |-> [branches |-> Num(80), functions |-> Num(80)]],
    [threshold |-> EmptyObject],
    [threshold |-> [statements |-> Num(80), branches |-> Num(80),
                    functions |-> Num(80), lines |-> Num(80)]] }

RowFileSystems ==
  { EmptyObject,
    [p \in {DefaultReport} |-> [wellFormed |-> FALSE]] }
  \cup { [p \in {DefaultReport} |->
            [wellFormed |-> TRUE,
             doc |-> [coverage |-> [project |-> <<Element(<<file>>)>>]]]] :
         file \in RowFiles }

InitRow ==
  /\ fs \in RowFileSystems
  /\ git = [created_files |-> <<pathOne>>, modified_files |-> <<>>]
  /\ options \in RowOptionSets
  /\ pc = "start"
  /\ markdownCalls = <<>>
  /\ warnCalls = <<>>
  /\ relevantFiles = <<>>
  /\ combinedMetrics = EmptyObject
  /\ tableLines = <<>>
  /\ summaryLines = <<>>
  /\ filePath = <<>>
  /\ shortPath = <<>>

SpecRow == InitRow /\ [][Next]_vars


(***************************************************************************)
(* Reports of many changed files, under every limit on the visible rows.   *)
(***************************************************************************)
\* the path of the i-th file: its number
TablePath(i) == <<ToString(i - 1)>>

\* lists of n files, each fully or half covered
TableFiles(n) ==
  { [i \in 1..n |-> File(TablePath(i), attrs[i], <<Line("1")>>)] :
      attrs \in [1..n -> { Attrs("10", "10", "10", "10", "10", "10"),
                           Attrs("10", "5", "10", "5", "10", "5") }] }

\* the files directly under the project, or spread over two packages
TableTrees ==
  UNION { { [project |-> <<Element(files)>>],
            [project |->
               <<[package |->
                    <<Element(SubSeq(files, 1, Len(files) \div 2)),
                      Element(SubSeq(files, Len(files) \div 2 + 1, Len(files)))>>]>>] } :
          files \in UNION { TableFiles(n) : n \in 0..MaxTableFiles } }

TableFileSystems ==
  { EmptyObject,
    [p \in {DefaultReport} |-> [wellFormed |-> FALSE]] }
  \cup { [p \in {DefaultReport} |->
            [wellFormed |-> TRUE, doc |-> [coverage |-> tree]]] :
         tree \in TableTrees }

TableOptionSets ==
  { EmptyObject, [maxRows |-> 0], [maxRows |-> 1], [maxRows |-> 2],
    [maxRows |-> MaxTableFiles] }

InitTable ==
  /\ fs \in TableFileSystems
  /\ git = [created_files |-> [i \in 1..MaxTableFiles |-> TablePath(i)],
            modified_files |-> <<>>]
  /\ options \in TableOptionSets
  /\ pc = "start"
  /\ markdownCalls = <<>>
  /\ warnCalls = <<>>
  /\ relevantFiles = <<>>
  /\ combinedMetrics = EmptyObject
  /\ tableLines = <<>>
  /\ summaryLines = <<>>
  /\ filePath = <<>>
  /\ shortPath = <<>>

SpecTable == InitTable /\ [][Next]_vars


(***************************************************************************)
(* Report trees: groups under project or package, nested, with siblings.   *)
(***************************************************************************)
\* the files numbered from..to, each fully covered
TreeFiles(from, to) ==
  [i \in 1..(to - from + 1) |->
     File(TablePath(from + i - 1), Attrs("10", "10", "10", "10", "10", "10"),
          <<Line("1")>>)]

\* a node that holds children under one grouping key
Group(key, children) == [k \in {key} |-> children]

RECURSIVE Trees(_, _, _)
\* the trees of at most depth levels of groups whose files, read depth first
\* and left to right, are the files numbered from..to: a bare list of files,
\* a group of one subtree, of a subtree and a list on either side, or of
\* three lists
Trees(from, to, depth) ==
  {Element(TreeFiles(from, to))}
  \cup
  IF depth = 0 THEN {}
  ELSE UNION {
         { Group(key, <<t>>) : t \in Trees(from, to, depth - 1) }
         \cup UNION {
           { Group(key, <<t, Element(TreeFiles(mid + 1, to))>>) :
               t \in Trees(from, mid, depth - 1) }
           \cup
           { Group(key, <<Element(TreeFiles(from, mid)), t>>) :
               t \in Trees(mid + 1, to, depth - 1) }
           \cup
           { Group(key, <<Element(TreeFiles(from, mid)),
                          Element(TreeFiles(mid + 1, last)),
                          Element(TreeFiles(last + 1, to))>>) :
               last \in mid..to } :
           mid \in (from - 1)..to } :
         key \in {"project", "package"} }

\* nodes that hold a project key beside a package key or a file list; the
\* files outside the project are files the change set names too
MixedTrees ==
  { [project |-> <<Element(TreeFiles(1, 1))>>,
     package |-> <<Element(TreeFiles(2, 2))>>],
    [project |-> <<Element(TreeFiles(1, 2))>>,
     file |-> TreeFiles(3, 3)],
    [project |-> <<Group("package", <<Element(TreeFiles(1, 1))>>)>>,
     package |-> <<Element(TreeFiles(2, 2))>>,
     file |-> TreeFiles(3, 3)],
    [project |-> <<Element(<<>>)>>,
     package |-> <<Element(TreeFiles(1, 2))>>] }

TreeFileSystems ==
  { EmptyObject,
    [p \in {DefaultReport} |-> [wellFormed |-> FALSE]] }
  \cup { [p \in {DefaultReport} |->
            [wellFormed |-> TRUE, doc |-> [coverage |-> tree]]] :
         tree \in MixedTrees
                  \cup UNION { Trees(1, n, MaxDepth) : n \in 0..MaxTreeFiles } }

InitTree ==
  /\ fs \in TreeFileSystems
  /\ git = [created_files |-> [i \in 1..MaxTreeFiles |-> TablePath(i)],
            modified_files |-> <<>>]
  /\ options \in { EmptyObject, [showAllFiles |-> TRUE] }
  /\ pc = "start"
  /\ markdownCalls = <<>>
  /\ warnCalls = <<>>
  /\ relevantFiles = <<>>
  /\ combinedMetrics = EmptyObject
  /\ tableLines = <<>>
  /\ summaryLines = <<>>
  /\ filePath = <<>>
  /\ shortPath = <<>>

SpecTree == InitTree /\ [][Next]_vars


(***************************************************************************)
(* One changed file under every pair of counts of its statements.          *)
(***************************************************************************)
\* the counts of branches and functions: those of the files the tests build
RoundOthers ==
  { <<"9", "3", "3", "2">>, <<"10", "9", "10", "10">>, <<"10", "10", "10", "10">> }

RoundFiles ==
  { File(pathOne,
         Attrs(ToString(total), ToString(covered), o[1], o[2], o[3], o[4]),
         <<Line("1")>>) :
      total \in 0..MaxCount, covered \in 0..MaxCount, o \in RoundOthers }

RoundFileSystems ==
  { EmptyObject,
    [p \in {DefaultReport} |-> [wellFormed |-> FALSE]] }
  \cup { [p \in {DefaultReport} |->
            [wellFormed |-> TRUE,
             doc |-> [coverage |-> [project |-> <<Element(<<file>>)>>]]]] :
         file \in RoundFiles }

InitRound ==
  /\ fs \in RoundFileSystems
  /\ git = [created_files |-> <<pathOne>>, modified_files |-> <<>>]
  /\ options = EmptyObject
  /\ pc = "start"
  /\ markdownCalls = <<>>
  /\ warnCalls = <<>>
  /\ relevantFiles = <<>>
  /\ combinedMetrics = EmptyObject
  /\ tableLines = <<>>
  /\ summaryLines = <<>>
  /\ filePath = <<>>
  /\ shortPath = <<>>

SpecRound == InitRound /\ [][Next]_vars


(***************************************************************************)
(* What the claims speak of.                                               *)
(***************************************************************************)
Range(s) == {s[i] : i \in 1..Len(s)}

\* the paths of the change set, as strings
ChangeSet ==
  {Text(p) : p \in Range(GitList("created_files")) \cup Range(GitList("modified_files"))}

\* the report file does not exist
ReportMissing == AbsolutePath(cloverReportPath) \notin DOMAIN fs

\* the report file exists and parses to a document with a coverage element
ReportLoaded ==
  /\ ~ReportMissing
  /\ fs[AbsolutePath(cloverReportPath)].wellFormed
  /\ "coverage" \in DOMAIN fs[AbsolutePath(cloverReportPath)].doc

\* the flattened file records of the loaded report
FlatFiles == getFlatFiles(fs[AbsolutePath(cloverReportPath)].doc.coverage)

\* the flattened records whose path is a path of the change set, in order
MatchingFiles == SelectSeq(FlatFiles, LAMBDA file : Text(file.path) \in ChangeSet)

\* the lines of a posted report that are rows of files
RowLines(report) ==
  LET rows == {buildRow(f, threshold) : f \in ReportFiles}
  IN  SelectSeq(report, LAMBDA l : l \in rows)

RawCounters ==
  {"statements", "coveredstatements", "conditionals", "coveredconditionals",
   "methods", "coveredmethods"}

RECURSIVE SumCounter(_, _)
\* the sum of a raw counter over the files that report it
SumCounter(key, files) ==
  IF files = <<>> THEN Num(0)
  ELSE LET fileMetrics == FileMetrics(Head(files))
           rest == SumCounter(key, Tail(files))
       IN  IF key \in DOMAIN fileMetrics
           THEN JsAdd(Number(fileMetrics[key]), rest)
           ELSE rest

\* the raw counters summed over the files
SummedMetrics(files) ==
  [key \in UNION {DOMAIN FileMetrics(f) : f \in Range(files)} |->
     SumCounter(key, files)]

\* the orders a list can be put in
Orderings(s) ==
  { [i \in 1..Len(s) |-> s[f[i]]] :
    f \in {g \in [1..Len(s) -> 1..Len(s)] :
             \A i, j \in 1..Len(s) : g[i] = g[j] => i = j} }

\* a warning, held as its words and phrases, holds the phrase
Mentions(warning, phrase) == \E i \in 1..Len(warning) : warning[i] = phrase

\* the segments of getShortPath's result without the ".." marker
RetainedSegments ==
  LET out == Segments(shortPath)
  IN  IF out # <<>> /\ Head(out) = ".." THEN Tail(out) ELSE out

HasMarker == Segments(shortPath) # <<>> /\ Head(Segments(shortPath)) = ".."

RECURSIVE CharsWithSeparators(_)
\* the characters of the parts, one separator counted with each
CharsWithSeparators(parts) ==
  IF parts = <<>> THEN 0
  ELSE Len(Head(parts)) + 1 + CharsWithSeparators(Tail(parts))

\* a percentage passes a limit: it is the '-' sentinel, or a number that is at
\* least the limit
MetricPasses(percentage, limit) ==
  \/ percentage = Dash
  \/ /\ IsNum(percentage)
     /\ IsNum(limit)
     /\ percentage.val >= 100 * limit.val

\* the lines metric of a file, from its line records: the total is their
\* number, the covered count the number of those executed at least once
LinesPercentage(file) ==
  LET lines == FileLines(file)
      hit == SelectSeq(lines, LAMBDA l : IsNum(Number(l.count))
                                         /\ Number(l.count).val > 0)
  IN  getCoveredPercentage(Num(Len(hit)), Num(Len(lines)))

\* the limit for lines: the configured one, else 80
LinesThreshold == IF "lines" \in DOMAIN threshold THEN threshold.lines ELSE Num(80)

MetricKeys == <<"statements", "branches", "functions">>

PassGlyph == ":white_check_mark:"
FailGlyph == ":x:"

\* the one relevant file of a run that reported on a single file
TheFile == relevantFiles[1]

\* a run that posted a report
Reported == pc = "returned" /\ markdownCalls # <<>>

OneFileReported ==
  pc = "returned" /\ markdownCalls # <<>> /\ Len(relevantFiles) = 1

\* the first row of the table
FirstRow == tableLines[3]

\* a row for a file named by a short relative path, without a commit to link
ExpectedRow(file, cells, glyph) ==
  "|" \o Text(file.path) \o "|" \o JoinText(cells, "|") \o "|" \o glyph \o "|"

\* the three percentages of a file as cells, and the same with lines added
ThreeCells(file) ==
  LET p == getMetricPercentages(FileMetrics(file))
  IN  <<PercentageText(p.statements), PercentageText(p.branches),
        PercentageText(p.functions)>>

FourCells(file) == ThreeCells(file) \o <<PercentageText(LinesPercentage(file))>>

\* the first row ends in the glyph, after three or four percentage cells
RowShows(file, glyph) ==
  \/ FirstRow = ExpectedRow(file, ThreeCells(file), glyph)
  \/ FirstRow = ExpectedRow(file, FourCells(file), glyph)

\* the percentages of the aggregate
AggregatePercentages == getMetricPercentages(combinedMetrics)

\* the limit for a metric: the configured one, else 80
LimitOrDefault(key) == IF key \in DOMAIN threshold THEN threshold[key] ELSE Num(80)

\* the line of the summary that reports a metric short of its limit
MissLine(key, limitText, percentageText) ==
  "Coverage threshold for " \o key \o " (" \o limitText \o "%) not met: "
  \o percentageText \o "%"

\* the summary holds a miss line for the metric, whatever limit it quotes
HasMissLine(key) ==
  \E j \in 1..Len(summaryLines) :
    \E limit \in {Get(threshold, key), LimitOrDefault(key)} :
      summaryLines[j] = MissLine(key, ValueText(limit),
                                 PercentageText(AggregatePercentages[key]))

SuccessSummary == <<"> " \o successMessage>>

\* the attribute that holds a metric's total
TotalKey(key) ==
  CASE key = "statements" -> "statements"
    [] key = "branches" -> "conditionals"
    [] key = "functions" -> "methods"

\* the attribute that holds a metric's covered count
CoveredKey(key) ==
  CASE key = "statements" -> "coveredstatements"
    [] key = "branches" -> "coveredconditionals"
    [] key = "functions" -> "coveredmethods"

\* the total of a file's metric is zero or not a number
NoTotal(file, key) == ~Truthy(Number(Get(FileMetrics(file), TotalKey(key))))

\* the total of a file's metric is a number other than zero and its covered
\* count is not a number
NoCovered(file, key) ==
  /\ Truthy(Number(Get(FileMetrics(file), TotalKey(key))))
  /\ ~IsNum(Number(Get(FileMetrics(file), CoveredKey(key))))

\* every metric has a limit, and no limit is beyond 100
LimitsWithinRange ==
  \A i \in 1..Len(MetricKeys) :
    /\ IsNum(Get(threshold, MetricKeys[i]))
    /\ Get(threshold, MetricKeys[i]).val <= 100

\* the root of the report that was read
ReportTree == fs[AbsolutePath(cloverReportPath)].doc.coverage

GroupKeys(node) == DOMAIN node \cap {"project", "package"}

RECURSIVE WellShaped(_)
\* every node holds group children under one grouping key, or a file list,
\* or neither
WellShaped(node) ==
  /\ Cardinality(DOMAIN node \cap {"project", "package", "file"}) <= 1
  /\ \A key \in GroupKeys(node) :
       \A i \in 1..Len(node[key]) : WellShaped(node[key][i])

RECURSIVE FileNodes(_)
\* the file nodes anywhere in a tree
FileNodes(node) ==
  (IF "file" \in DOMAIN node THEN Range(node.file) ELSE {})
  \cup UNION { UNION { FileNodes(node[key][i]) : i \in 1..Len(node[key]) } :
               key \in GroupKeys(node) }

RECURSIVE Depth(_)
\* the levels of groups above the deepest node
Depth(node) ==
  IF GroupKeys(node) = {} THEN 0
  ELSE LET key == CHOOSE k \in GroupKeys(node) : TRUE
           below == {Depth(node[key][i]) : i \in 1..Len(node[key])}
       IN  1 + (IF below = {} THEN 0
                ELSE CHOOSE d \in below : \A e \in below : e <= d)

\* the counters of a file are numbers, the covered count of each metric
\* between zero and its total
SoundCounters(file) ==
  \A i \in 1..Len(MetricKeys) :
    LET total == Number(Get(FileMetrics(file), TotalKey(MetricKeys[i])))
        covered == Number(Get(FileMetrics(file), CoveredKey(MetricKeys[i])))
    IN  /\ IsNum(total)
        /\ IsNum(covered)
        /\ 0 <= covered.val
        /\ covered.val <= total.val

\* the '-' sentinel, or a number from 0 to 100
InRange(percentage) ==
  \/ percentage = Dash
  \/ IsNum(percentage) /\ 0 <= percentage.val /\ percentage.val <= 100 * 100

\* a number of hundredths written with up to two decimals, no zero at the end
TwoPlaces(h) ==
  LET tenths == (h \div 10) % 10
      hundredths == h % 10
  IN  ToString(h \div 100)
      \o (IF tenths = 0 /\ hundredths = 0 THEN ""
          ELSE "." \o ToString(tenths)
               \o (IF hundredths = 0 THEN "" ELSE ToString(hundredths)))

\* h hundredths is a nearest hundredth to covered / total * 100
NearestHundredth(h, covered, total) ==
  LET diff == h * total - 10000 * covered
  IN  2 * (IF diff < 0 THEN -diff ELSE diff) <= total

\* a metric's counts as numbers
TotalOf(file, key) == Number(Get(FileMetrics(file), TotalKey(key)))
CoveredOf(file, key) == Number(Get(FileMetrics(file), CoveredKey(key)))

\* threshold configs with a numeric limit for each metric
ThresholdConfigs ==
  [statements : {Num(n) : n \in {0, 50, 80, 100}},
   branches : {Num(n) : n \in {0, 50, 80, 100}},
   functions : {Num(n) : n \in {0, 50, 80, 100}}]

\* both configs give each metric a number, and no limit of t exceeds t2's
NoHigher(t, t2) ==
  \A i \in 1..Len(MetricKeys) :
    /\ IsNum(Get(t, MetricKeys[i]))
    /\ IsNum(Get(t2, MetricKeys[i]))
    /\ Get(t, MetricKeys[i]).val <= Get(t2, MetricKeys[i]).val

\* the file cell of a row: the path relative to the working directory, as
\* a link when the last commit is known
FileCellOf(file) ==
  LET shown == Text(PathRelative(cwd, file.path))
  IN  IF Truthy(LastSha)
      THEN "[" \o shown \o "](../blob/" \o ValueText(LastSha) \o "/" \o shown \o ")"
      ELSE shown

\* the first row is the file's, with its three percentages and the glyph
FirstRowEndsIn(file, glyph) ==
  FirstRow = "|" \o FileCellOf(file) \o "|" \o JoinText(ThreeCells(file), "|")
             \o "|" \o glyph \o "|"

\* the line of the table that is the row of the i-th relevant file: in the
\* visible table, or in the block after its eight opening lines
RowAt(i) ==
  IF i <= maxRows THEN tableLines[2 + i]
  ELSE tableLines[2 + maxRows + 8 + (i - maxRows)]

(***************************************************************************)
(* The claims.                                                             *)
(***************************************************************************)

\* C1: the aggregate metrics the summary uses are a weighted aggregate: each
\* raw counter of the aggregate is the sum of that counter over the relevant
\* files, and the summary is built from the percentages of those sums.
\* (Stated as claimed; the reduce of getCombinedMetrics keeps the first
\* non-zero value instead of adding.)
C1_AggregateIsSumOfCounters ==
  (pc = "returned" /\ markdownCalls # <<>>) =>
    /\ combinedMetrics = SummedMetrics(relevantFiles)
    /\ markdownCalls[1] =
         <<"## Coverage Report", "">>
         \o buildSummary(SummedMetrics(relevantFiles), successMessage,
                         failureMessage, threshold)
         \o <<"">>
         \o buildTable(relevantFiles, maxRows, threshold)

\* C2: aggregation is order-independent: every permutation of the relevant
\* files gives the aggregate percentages that the run computed.
\* (Stated as claimed.)
C2_AggregateOrderIndependent ==
  (pc = "returned" /\ markdownCalls # <<>>) =>
    \A q \in Orderings(relevantFiles) :
      getMetricPercentages(getCombinedMetrics(q))
        = getMetricPercentages(combinedMetrics)

\* C3: when the report is loaded, showAllFiles is off and no flattened record
\* is relevant to the change set, coverage() returns without posting.
\* (Stated as claimed.)
C3_NoRelevantFilesNoPost ==
  (pc = "returned" /\ ReportLoaded /\ ~showAllFiles /\ MatchingFiles = <<>>) =>
    markdownCalls = <<>>

C5_FilterNormalizesPaths ==
  (pc = "returned" /\ ReportLoaded /\ ~showAllFiles) =>
    \A f \in Range(FlatFiles) :
      (IsAbsolute(f.path) /\ Text(PathRelative(cwd, f.path)) \in ChangeSet) =>
        /\ markdownCalls # <<>>
        /\ buildRow(f, threshold) \in Range(markdownCalls[1])
        /\ f \in Range(relevantFiles)

\* C6: when the report file does not exist, coverage() completes without
\* throwing and never calls markdown(), whatever the settings and the
\* change set.
C6_MissingReportIsSilent ==
  (pc # "start" /\ ReportMissing) => (pc = "returned" /\ markdownCalls = <<>>)

\* C6's case: a finished run without a report file, with a change set and
\* settings given.
C6_Witness ==
  /\ pc = "returned" /\ ReportMissing
  /\ GitList("created_files") # <<>>
  /\ showAllFiles
  /\ "maxRows" \in DOMAIN options

\* C7: when the report file does not exist and warn-on-no-report is enabled
\* (the default), coverage() hands warn() a message matching
\* "No coverage report" and posts no Markdown.  (Stated as claimed.)
C7_MissingReportWarns ==
  (pc # "start" /\ ReportMissing /\ Option("warnOnNoReport", TRUE)) =>
    /\ \E i \in 1..Len(warnCalls) : Mentions(warnCalls[i], "No coverage report")
    /\ markdownCalls = <<>>

\* C8: when the change set holds paths absent from the flattened report and
\* warn-on-missing-files is enabled (the default), coverage() emits a warning
\* naming the number of such paths, and still renders the files present.
\* (Stated as claimed.)
C8_MissingFilesWarn ==
  LET absent == ChangeSet \ {Text(f.path) : f \in Range(FlatFiles)}
  IN  (pc = "returned" /\ ReportLoaded /\ Option("warnOnMissingFiles", TRUE)
       /\ absent # {}) =>
        /\ \E i \in 1..Len(warnCalls) :
             Mentions(warnCalls[i],
                      "no data on " \o ToString(Cardinality(absent)) \o " files")
        /\ \A j \in 1..Len(MatchingFiles) :
             /\ markdownCalls # <<>>
             /\ buildRow(MatchingFiles[j], threshold) \in Range(markdownCalls[1])

C10_MarkerIffSegmentDropped ==
  (pc = "returned") =>
    (HasMarker <=> Len(RetainedSegments) < Len(Segments(filePath)))


\* C11: for every non-empty path, the output of getShortPath ends with the
\* original final (deepest) segment, and the segments it retains are a
\* contiguous suffix of the original segments, in their original order.
C11_ShortPathKeepsSuffix ==
  (pc = "returned" /\ Segments(filePath) # <<>>) =>
    LET orig == Segments(filePath)
        kept == RetainedSegments
    IN  /\ kept # <<>>
        /\ Len(kept) <= Len(orig)
        /\ kept = SubSeq(orig, Len(orig) - Len(kept) + 1, Len(orig))
        /\ Segments(shortPath)[Len(Segments(shortPath))] = orig[Len(orig)]

\* C11's case: a path that loses leading segments and keeps several.
C11_Witness ==
  /\ pc = "returned"
  /\ Len(RetainedSegments) >= 2
  /\ Len(RetainedSegments) < Len(Segments(filePath)) - 1
  /\ HasMarker
  /\ RetainedSegments[1] # RetainedSegments[2]


\* C12: a metric set passes iff every one of the four metrics (statements,
\* branches, functions, lines) passes, a metric passing iff its percentage is
\* '-' or at least its threshold; the row of a file shows the pass glyph iff
\* the file's metric set passes.  (Stated as claimed; hasPassed looks at
\* three metrics and never at lines.)
C12_RowPassesIffAllFourPass ==
  (OneFileReported /\ FileLines(TheFile) # <<>>) =>
    LET p == getMetricPercentages(FileMetrics(TheFile))
    IN  RowShows(TheFile, PassGlyph) <=>
          /\ \A i \in 1..Len(MetricKeys) :
               MetricPasses(p[MetricKeys[i]], Get(threshold, MetricKeys[i]))
          /\ MetricPasses(LinesPercentage(TheFile), LinesThreshold)


\* C13: when the caller's threshold config omits a metric, that metric is not
\* failed for lack of a threshold: the row's check uses the default 80 for
\* it, and the aggregate summary treats it as met, with no miss line for it
\* and no failure caused by it.  (Stated as claimed; the caller's object
\* replaces the defaults whole, and no number is at least undefined.)
C13_OmittedThresholdNotFailed ==
  (OneFileReported /\ "threshold" \in DOMAIN options) =>
    LET p == getMetricPercentages(FileMetrics(TheFile))
        keys == {MetricKeys[i] : i \in 1..Len(MetricKeys)}
    IN  /\ FileLines(TheFile) # <<>> =>
             (RowShows(TheFile, PassGlyph) <=>
                \A key \in keys : MetricPasses(p[key], LimitOrDefault(key)))
        /\ \A key \in keys \ DOMAIN threshold : ~HasMissLine(key)
        /\ (\A key \in keys \cap DOMAIN threshold :
              MetricPasses(AggregatePercentages[key], threshold[key]))
             => summaryLines = SuccessSummary


\* C14: in a failure summary, a miss line for a metric is listed iff that
\* metric's aggregate percentage itself fails (it is not '-' and is below its
\* threshold); the line reads
\*   Coverage threshold for <metric> (<threshold>%) not met: <percentage>%
\* with the metric named statements, branches or functions.  (Stated as
\* claimed; getThresholdSummaryLine has no test for '-'.)
C14_MissLineIffMetricFails ==
  (OneFileReported /\ summaryLines[1] = "> " \o failureMessage) =>
    \A i \in 1..Len(MetricKeys) :
      LET key == MetricKeys[i]
          line == MissLine(key, ValueText(Get(threshold, key)),
                           PercentageText(AggregatePercentages[key]))
      IN  (\E j \in 1..Len(summaryLines) : summaryLines[j] = line)
            <=> ~MetricPasses(AggregatePercentages[key], Get(threshold, key))


\* C15: buildSummary renders exactly "> <successMessage>" when the aggregate
\* metric set passes, and otherwise "> <failureMessage>" followed by a fenced
\* block of miss lines; the configured messages are used verbatim, and
\* whenever the failure message is shown the list of misses is not empty.
C15_SummaryShape ==
  Reported =>
    LET keys == {MetricKeys[i] : i \in 1..Len(MetricKeys)}
        passes == \A key \in keys :
                    MetricPasses(AggregatePercentages[key], Get(threshold, key))
        success == IF "successMessage" \in DOMAIN options
                   THEN options.successMessage ELSE defaultSuccessMessage
        failure == IF "failureMessage" \in DOMAIN options
                   THEN options.failureMessage ELSE defaultFailureMessage
        n == Len(summaryLines)
    IN  /\ SubSeq(markdownCalls[1], 3, 2 + n) = summaryLines
        /\ passes => summaryLines = <<"> " \o success>>
        /\ ~passes =>
             /\ n >= 5
             /\ summaryLines[1] = "> " \o failure
             /\ summaryLines[2] = ""
             /\ summaryLines[3] = codeFence
             /\ summaryLines[n] = codeFence
             /\ \A j \in 4..(n - 1) :
                  \E key \in keys :
                    summaryLines[j] =
                      MissLine(key, ValueText(Get(threshold, key)),
                               PercentageText(AggregatePercentages[key]))

\* C15's case: a custom failure message above a block of two misses
C15_Witness ==
  /\ Reported
  /\ "failureMessage" \in DOMAIN options
  /\ summaryLines[1] = "> Custom failure message"
  /\ Len(summaryLines) = 6


\* C16: the lines metric is computed from the file's line records (total =
\* number of line records, covered = number with execution count > 0), shown
\* as a fourth percentage cell and checked against the lines threshold: a
\* file whose only line has count 0 renders |src/one.js|100|100|100|0|:x:|
\* and the summary includes
\*   Coverage threshold for lines (80%) not met: 0%
\* (Stated as claimed; the code computes and shows three metrics.)
C16_LinesMetricShown ==
  (OneFileReported /\ FileLines(TheFile) # <<>>) =>
    /\ \E glyph \in {PassGlyph, FailGlyph} :
         FirstRow = ExpectedRow(TheFile, FourCells(TheFile), glyph)
    /\ ~MetricPasses(LinesPercentage(TheFile), LinesThreshold) =>
         /\ FirstRow = ExpectedRow(TheFile, FourCells(TheFile), FailGlyph)
         /\ \E j \in 1..Len(summaryLines) :
              summaryLines[j] =
                MissLine("lines", ValueText(LinesThreshold),
                         PercentageText(LinesPercentage(TheFile)))


\* C17: for every value of covered, the percentage of a metric whose total is
\* zero or not a number is 100, never a fault and never NaN; a file whose
\* three totals are all zero but which has at least one line renders 100 in
\* every metric cell and passes (under limits that are numbers up to 100).
C17_NoTotalIsHundred ==
  OneFileReported =>
    LET p == getMetricPercentages(FileMetrics(TheFile))
        keys == {MetricKeys[i] : i \in 1..Len(MetricKeys)}
        cells == [i \in 1..Len(MetricKeys) |->
                    IF NoTotal(TheFile, MetricKeys[i]) THEN "100"
                    ELSE ThreeCells(TheFile)[i]]
    IN  /\ \A key \in keys : NoTotal(TheFile, key) => p[key] = Num(100 * 100)
        /\ \A key \in keys :
             NoTotal(TheFile, key) =>
               getMetricPercentages(combinedMetrics)[key] = Num(100 * 100)
        /\ FileLines(TheFile) # <<>> =>
             \E glyph \in {PassGlyph, FailGlyph} :
               FirstRow = ExpectedRow(TheFile, cells, glyph)
        /\ (FileLines(TheFile) # <<>> /\ LimitsWithinRange
            /\ \A key \in keys : NoTotal(TheFile, key)) =>
             /\ FirstRow = ExpectedRow(TheFile, <<"100", "100", "100">>, PassGlyph)
             /\ summaryLines = SuccessSummary

\* C17's case: every total zero, a covered count that is not, one line, and
\* limits of 100
C17_Witness ==
  /\ OneFileReported
  /\ FileLines(TheFile) # <<>>
  /\ \A i \in 1..Len(MetricKeys) :
       /\ Get(FileMetrics(TheFile), TotalKey(MetricKeys[i])) = JsString("0")
       /\ Get(threshold, MetricKeys[i]) = Num(100)
  /\ Get(FileMetrics(TheFile), "coveredstatements") = JsString("5")
  /\ Get(FileMetrics(TheFile), "coveredmethods") = Undefined
  /\ FirstRow = "|src/one.js|100|100|100|:white_check_mark:|"


\* C18: when total is a non-zero number and covered is not a number, the
\* percentage is the sentinel '-'; the threshold evaluator always counts the
\* sentinel as passing, for a file's row and for the aggregate alike: whether
\* they pass is decided by the other metrics alone, whatever the limits.
C18_SentinelAlwaysPasses ==
  OneFileReported =>
    LET p == getMetricPercentages(FileMetrics(TheFile))
        keys == {MetricKeys[i] : i \in 1..Len(MetricKeys)}
        others == {key \in keys : ~NoCovered(TheFile, key)}
        cells == [i \in 1..Len(MetricKeys) |->
                    IF NoCovered(TheFile, MetricKeys[i]) THEN "-"
                    ELSE ThreeCells(TheFile)[i]]
    IN  /\ \A key \in keys \ others :
             p[key] = Dash /\ AggregatePercentages[key] = Dash
        /\ FileLines(TheFile) # <<>> =>
             FirstRow =
               ExpectedRow(TheFile, cells,
                           IF \A key \in others :
                                MetricPasses(p[key], Get(threshold, key))
                           THEN PassGlyph ELSE FailGlyph)
        /\ summaryLines = SuccessSummary <=>
             \A key \in others :
               MetricPasses(AggregatePercentages[key], Get(threshold, key))

\* C18's case: two metrics without a covered count beside one at 100, under
\* limits of 100, in a row and a summary that pass
C18_Witness ==
  /\ OneFileReported
  /\ FileLines(TheFile) # <<>>
  /\ NoCovered(TheFile, "statements")
  /\ NoCovered(TheFile, "branches")
  /\ Get(threshold, "statements") = Num(100)
  /\ FirstRow = "|src/one.js|-|-|100|:white_check_mark:|"
  /\ summaryLines = SuccessSummary


\* C19: a file with an empty line list renders every percentage cell as '-'
\* and the status glyph as '-', whatever its statement, branch and function
\* totals and covered counts and whatever the thresholds.
C19_NoLinesRowIsDashes ==
  (OneFileReported /\ FileLines(TheFile) = <<>>) =>
    FirstRow = ExpectedRow(TheFile, <<"-", "-", "-">>, "-")

\* C19's case: a file without lines whose counts fall short of limits of 100
C19_Witness ==
  /\ OneFileReported
  /\ FileLines(TheFile) = <<>>
  /\ Get(FileMetrics(TheFile), "statements") = JsString("10")
  /\ Get(FileMetrics(TheFile), "coveredstatements") = JsString("5")
  /\ Get(threshold, "statements") = Num(100)
  /\ FirstRow = "|src/one.js|-|-|-|-|"


C21_FlattenIsDepthFirst ==
  (Reported /\ WellShaped(ReportTree)) =>
    LET flat == getFlatFiles(ReportTree)
    IN  /\ relevantFiles = flat
        /\ Range(flat) = FileNodes(ReportTree)
        /\ Len(flat) = Cardinality(FileNodes(ReportTree))
        /\ \A i \in 1..Len(flat) : flat[i].path = TablePath(i)
        /\ DOMAIN ReportTree \cap {"project", "package", "file"} = {} =>
             flat = <<>>

\* C21's case: three files under two levels of groups, the first alone in a
\* nested group and the others in its sibling
C21_Witness ==
  /\ Reported
  /\ WellShaped(ReportTree)
  /\ Depth(ReportTree) = 2
  /\ "project" \in DOMAIN ReportTree
  /\ Len(ReportTree.project) = 2
  /\ "package" \in DOMAIN ReportTree.project[1]
  /\ Len(relevantFiles) = 3
  /\ Len(tableLines) = 5


\* C22: when showAllFiles is set, every flattened file record is rendered
\* and counted, in flattened order, whatever the change set is, an empty one
\* included.
C22_ShowAllFilesTakesAll ==
  (pc = "returned" /\ ReportLoaded /\ showAllFiles) =>
    /\ Len(markdownCalls) = 1
    /\ relevantFiles = FlatFiles
    /\ RowLines(markdownCalls[1]) =
         [i \in 1..Len(FlatFiles) |-> buildRow(FlatFiles[i], threshold)]
    /\ RowLines(tableLines) = RowLines(markdownCalls[1])
    /\ combinedMetrics = getCombinedMetrics(FlatFiles)

\* C22's case: two records reported under an empty change set
C22_Witness ==
  /\ pc = "returned" /\ ReportLoaded /\ showAllFiles
  /\ ChangeSet = {}
  /\ Len(FlatFiles) = 2
  /\ Len(RowLines(markdownCalls[1])) = 2


\* C23: for files whose counters are numbers with 0 <= covered <= total for
\* each metric, every percentage produced, per file and for the aggregate
\* over any list of such files, is either '-' or a number in [0, 100].
\* (Stated as claimed; the aggregate pairs the total of one file with the
\* covered count of another.)
C23_PercentagesInRange ==
  (Reported /\ \A f \in Range(relevantFiles) : SoundCounters(f)) =>
    \A i \in 1..Len(MetricKeys) :
      /\ \A f \in Range(relevantFiles) :
           InRange(getMetricPercentages(FileMetrics(f))[MetricKeys[i]])
      /\ InRange(AggregatePercentages[MetricKeys[i]])


\* C24: for a non-zero numeric total and a numeric covered, the percentage
\* equals covered / total * 100 rounded to 2 decimal places, as a number
\* without trailing zeros (20/21 -> 95.24, 3/9 -> 33.33, 2/3 -> 66.67,
\* 9/10 -> 90, 10/10 -> 100).
C24_RoundedToTwoPlaces ==
  OneFileReported =>
    LET p == getMetricPercentages(FileMetrics(TheFile))
        counted(key) == /\ IsNum(TotalOf(TheFile, key))
                        /\ TotalOf(TheFile, key).val # 0
                        /\ IsNum(CoveredOf(TheFile, key))
        is(key, covered, total) ==
          /\ CoveredOf(TheFile, key) = Num(covered)
          /\ TotalOf(TheFile, key) = Num(total)
    IN  /\ \A i \in 1..Len(MetricKeys) :
             counted(MetricKeys[i]) =>
               /\ IsNum(p[MetricKeys[i]])
               /\ NearestHundredth(p[MetricKeys[i]].val,
                                   CoveredOf(TheFile, MetricKeys[i]).val,
                                   TotalOf(TheFile, MetricKeys[i]).val)
        /\ (\A i \in 1..Len(MetricKeys) : counted(MetricKeys[i])) =>
             \E glyph \in {PassGlyph, FailGlyph} :
               FirstRow =
                 ExpectedRow(TheFile,
                             [i \in 1..Len(MetricKeys) |->
                                TwoPlaces(p[MetricKeys[i]].val)],
                             glyph)
        /\ is("statements", 20, 21) => p.statements = Num(9524)
        /\ is("branches", 3, 9) => p.branches = Num(3333)
        /\ is("functions", 2, 3) => p.functions = Num(6667)
        /\ is("statements", 9, 10) => p.statements = Num(9000)
        /\ is("statements", 10, 10) => p.statements = Num(10000)

\* C24's case: the file of the test, 20 of 21, 3 of 9 and 2 of 3
C24_Witness ==
  /\ OneFileReported
  /\ FirstRow = "|src/one.js|95.24|33.33|66.67|:x:|"
  /\ summaryLines[4] = "Coverage threshold for branches (80%) not met: 33.33%"


\* C25: threshold evaluation is monotonic: for fixed percentages and any two
\* threshold configs t <= t2 (componentwise), if the metric set passes under
\* t2 it passes under t; raising a threshold never turns a fail into a pass.
\* Stated for the row and the summary of a run against every config below
\* and above the run's own.
C25_ThresholdsMonotonic ==
  (OneFileReported /\ FileLines(TheFile) # <<>>) =>
    LET p == getMetricPercentages(FileMetrics(TheFile))
        rowPasses == RowShows(TheFile, PassGlyph)
        summaryPasses == summaryLines = SuccessSummary
    IN  \A t \in ThresholdConfigs :
          /\ (NoHigher(t, threshold) /\ rowPasses) => hasPassed(t, p)
          /\ (NoHigher(threshold, t) /\ hasPassed(t, p)) => rowPasses
          /\ (NoHigher(t, threshold) /\ summaryPasses) =>
               hasPassed(t, AggregatePercentages)
          /\ (NoHigher(threshold, t) /\ hasPassed(t, AggregatePercentages)) =>
               summaryPasses

\* C25's case: a file at 80, 50 and 100 that passes limits of 50 and fails
\* the higher limits of 80
C25_Witness ==
  /\ OneFileReported
  /\ FileLines(TheFile) # <<>>
  /\ Get(threshold, "branches") = Num(50)
  /\ FirstRow = "|src/one.js|80|50|100|:white_check_mark:|"
  /\ ~hasPassed(defaultThreshold, getMetricPercentages(FileMetrics(TheFile)))


\* C26: getFlatFiles checks the grouping keys in the order project, then
\* package: for a node that has a project key, only the children under
\* project are flattened, and any package children or file list on that same
\* node contribute nothing to the result.
C26_ProjectBeforePackage ==
  (Reported /\ "project" \in DOMAIN ReportTree
   /\ \A i \in 1..Len(ReportTree.project) : WellShaped(ReportTree.project[i])) =>
    LET underProject ==
          UNION { FileNodes(ReportTree.project[i]) :
                  i \in 1..Len(ReportTree.project) }
        beside == FileNodes([k \in DOMAIN ReportTree \ {"project"} |->
                               ReportTree[k]])
    IN  /\ Range(relevantFiles) = underProject
        /\ Len(relevantFiles) = Cardinality(underProject)
        /\ \A i \in 1..Len(relevantFiles) : relevantFiles[i].path = TablePath(i)
        /\ \A f \in beside \ underProject :
             /\ f \notin Range(relevantFiles)
             /\ buildRow(f, threshold) \notin Range(markdownCalls[1])

\* C26's case: a root with a project, a package and a file list, of which
\* only the file under the project is reported
C26_Witness ==
  /\ Reported
  /\ {"project", "package", "file"} \subseteq DOMAIN ReportTree
  /\ Len(relevantFiles) = 1
  /\ Cardinality(FileNodes(ReportTree)) = 3
  /\ Len(tableLines) = 3


\* C27: when rows overflow maxRows, the disclosure block begins with a
\* repeat of the table's heading row (the same column titles as the visible
\* table) followed by the separator row, before the hidden rows.  (Stated as
\* claimed; the block's heading row is a row of blank cells.)
C27_BlockRepeatsHeading ==
  (Reported /\ Len(relevantFiles) > maxRows) =>
    LET block == 2 + maxRows
    IN  /\ tableLines[block + 2] = "<details>"
        /\ tableLines[block + 5] = "</summary>"
        /\ tableLines[block + 7] = tableLines[1]
        /\ tableLines[block + 7] = headingRow
        /\ tableLines[block + 8] = seperator
        /\ tableLines[block + 9] = buildRow(relevantFiles[maxRows + 1], threshold)


\* C28: in every invocation of coverage() the posting sink is called at most
\* once, and only after the report was loaded, flattened and filtered; when
\* the report exists and at least one file is relevant it is called exactly
\* once, with a single string made of "## Coverage Report", then the
\* summary, then the table, separated by blank lines.
C28_PostsOnceAfterFiltering ==
  LET expected == IF showAllFiles THEN FlatFiles ELSE MatchingFiles
  IN  /\ Len(markdownCalls) <= 1
      /\ markdownCalls # <<>> =>
           /\ pc = "returned"
           /\ ReportLoaded
           /\ relevantFiles = expected
      /\ (pc = "returned" /\ ReportLoaded /\ expected # <<>>) =>
           /\ Len(markdownCalls) = 1
           /\ markdownCalls[1] =
                <<"## Coverage Report", "">> \o summaryLines \o <<"">> \o tableLines
           /\ summaryLines # <<>>
           /\ Len(tableLines) >= 3
           /\ tableLines[1] = headingRow

\* C28's case: a report posted for two relevant files, one of which fails
C28_Witness ==
  /\ pc = "returned"
  /\ Len(markdownCalls) = 1
  /\ Len(relevantFiles) = 2
  /\ Len(summaryLines) > 1
  /\ markdownCalls[1][1] = "## Coverage Report"


\* C29: if every relevant file has numeric counters with covered <= total
\* and individually passes the thresholds (hasPassed holds for each file's
\* percentages), the aggregate summary shows the success message; and with
\* exactly one relevant file that has at least one line, the row shows the
\* pass glyph if and only if the summary shows the success message.
C29_FilesPassThenSummaryPasses ==
  Reported =>
    /\ (\A f \in Range(relevantFiles) :
          /\ SoundCounters(f)
          /\ hasPassed(threshold, getMetricPercentages(FileMetrics(f))))
         => summaryLines = SuccessSummary
    /\ (Len(relevantFiles) = 1 /\ FileLines(TheFile) # <<>> /\ maxRows >= 1) =>
         /\ FirstRowEndsIn(TheFile, PassGlyph) \/ FirstRowEndsIn(TheFile, FailGlyph)
         /\ FirstRowEndsIn(TheFile, PassGlyph) <=> summaryLines = SuccessSummary

\* C29's case: two files that differ and both pass, under a success message
C29_Witness ==
  /\ Reported
  /\ Len(relevantFiles) = 2
  /\ FileMetrics(relevantFiles[1]) # FileMetrics(relevantFiles[2])
  /\ FileMetrics(relevantFiles[1]).coveredconditionals = JsString("0")
  /\ \A f \in Range(relevantFiles) :
       /\ SoundCounters(f)
       /\ hasPassed(threshold, getMetricPercentages(FileMetrics(f)))
  /\ summaryLines = SuccessSummary


\* C30: every row produced by buildRow has exactly as many cells as the
\* heading row and the separator row built by buildTable (file cell, one
\* cell per metric column, status glyph), for files with and without lines
\* and in both the visible table and the disclosure block.
C30_RowsMatchHeading ==
  Reported =>
    LET columns == Len(headings)
    IN  /\ tableLines[1] = joinRow(headings)
        /\ tableLines[2] =
             joinRow([i \in 1..columns |-> IF i = 1 THEN "---" ELSE ":-:"])
        /\ Len(relevantFiles) > maxRows =>
             /\ tableLines[2 + maxRows + 7] = joinRow([i \in 1..columns |-> " "])
             /\ tableLines[2 + maxRows + 8] = tableLines[2]
        /\ \A i \in 1..Len(relevantFiles) :
             LET file == relevantFiles[i]
                 cells == RowCells(file, threshold)
                 between == SubSeq(cells, 2, Len(cells) - 1)
             IN  /\ cells[1] = "" /\ cells[Len(cells)] = ""
                 /\ Len(between) = columns
                 /\ Len(between) = 1 + Len(MetricKeys) + 1
                 /\ between[1] = FileCellOf(file)
                 /\ between[columns]
                      \in {PassGlyph, FailGlyph, "-"}
                 /\ RowAt(i) = joinRow(between)

\* C30's case: a row of a file with lines in view and a row of a file
\* without lines in the block
C30_Witness ==
  /\ Reported
  /\ maxRows = 1
  /\ Len(relevantFiles) = 2
  /\ FileLines(relevantFiles[1]) # <<>>
  /\ FileLines(relevantFiles[2]) = <<>>
  /\ Len(tableLines) = 13


====
